---- MODULE Spec2Model ----
(***************************************************************************)
(* Model of the FW admin API gateway (services/api-gateway): the API key   *)
(* guard, the global rate limiter, the aggregated services status and the  *)
(* route dispatch of createApp.                                            *)
(*                                                                         *)
(* Strings are sequences of character codes (UTF-16 code units); header    *)
(* values arrive as latin1, so every header character is below 256.        *)
(***************************************************************************)
EXTENDS Integers, Sequences, FiniteSets, TLC

VARIABLES
    config,   \* the configuration object of loadConfig (read-only after Init)
    now,      \* Date.now(), in ms
    store,    \* the rate limiter's counter table: client key -> [totalHits, resetTime]
    upstream, \* how each upstream behaves: "responsive" or "silent" (never answers)
    req,      \* the requests: id -> request/response record
    proc      \* the gateway process: its phase, and the environment it was started with

vars == <<config, now, store, upstream, req, proc>>

\* ------------------------------------------------------------------------
\* Bounds of the model
\* ------------------------------------------------------------------------

\* longest x-fw-admin-key value put on the wire
MaxHeaderLen == 3

\* how far the clock runs, in ticks
MaxTicks == 3

\* requests sent to the rate limiter
RateRequests == 3

\* requests for the aggregated status
StatusRequests == 1

\* requests sent to the whole application
AppRequests == 2

\* requests sent through the pipeline to the routers
PipelineRequests == 2

\* the abort timer of a health probe: setTimeout(() => controller.abort(), 5000)
ProbeTimeoutMs == 5000

\* the clock advances by half a probe timeout at most
TickMs == ProbeTimeoutMs \div 2

MaxTime == MaxTicks * TickMs

\* ------------------------------------------------------------------------
\* Strings
\* ------------------------------------------------------------------------


Strings(alphabet, n) == UNION {[1..k -> alphabet] : k \in 0..n}

\* optional whitespace of a header field: space and horizontal tab
IsOWS(c) == c \in {32, 9}

RECURSIVE TrimLeft(_)
TrimLeft(s) ==
    IF s = <<>> THEN s
    ELSE IF IsOWS(Head(s)) THEN TrimLeft(Tail(s)) ELSE s

RECURSIVE TrimRight(_)
TrimRight(s) ==
    IF s = <<>> THEN s
    ELSE IF IsOWS(s[Len(s)]) THEN TrimRight(SubSeq(s, 1, Len(s) - 1)) ELSE s

\* the HTTP parser hands a field value over without its surrounding whitespace
HeaderTrim(s) == TrimRight(TrimLeft(s))

\* Buffer.from(c): the UTF-8 bytes of one character (codes below 2048)
Utf8(c) == IF c < 128 THEN <<c>> ELSE <<192 + (c \div 64), 128 + (c % 64)>>

\* Buffer.from(s): the UTF-8 bytes of a string
RECURSIVE BufferFrom(_)
BufferFrom(s) == IF s = <<>> THEN <<>> ELSE Utf8(Head(s)) \o BufferFrom(Tail(s))

\* ------------------------------------------------------------------------
\* middleware/apiKey.ts
\* ------------------------------------------------------------------------

\* crypto.timingSafeEqual: throws a RangeError on buffers of different byte
\* length, otherwise compares the bytes
timingSafeEqual(x, y) ==
    IF Len(x) # Len(y) THEN "RangeError"
    ELSE IF x = y THEN "true" ELSE "false"

timingSafeCompare(a, b) ==
    IF Len(a) # Len(b)
    THEN \* dummy comparison of a buffer with itself: never throws
         IF timingSafeEqual(BufferFrom(a), BufferFrom(a)) = "RangeError"
         THEN "RangeError" ELSE "false"
    ELSE timingSafeEqual(BufferFrom(a), BufferFrom(b))

\* config.apiKeys.some(...) from index i on: stops at the first match, and a
\* comparison that throws ends the iteration with that exception
RECURSIVE SomeFrom(_, _, _)
SomeFrom(providedKey, keys, i) ==
    IF i > Len(keys) THEN "false"
    ELSE LET c == timingSafeCompare(providedKey, keys[i])
         IN  IF c = "false" THEN SomeFrom(providedKey, keys, i + 1) ELSE c

\* a faulty variant: every key is taken for a configured one
isValidApiKey_Any(providedKey, keys) == "true"

isValidApiKey(providedKey, keys) == SomeFrom(providedKey, keys, 1)

\* req.headers["x-fw-admin-key"] for the header as sent
Undefined == [type |-> "undefined", value |-> <<>>]
IncomingHeader(wire) ==
    CASE wire.kind = "absent" -> Undefined
      [] wire.kind = "array"  -> [type |-> "array", value |-> wire.value]
      [] OTHER                -> [type |-> "string", value |-> HeaderTrim(wire.value)]

NoResponse == [status |-> 0, code |-> "", retryAfter |-> FALSE]
Json(status, code) == [status |-> status, code |-> code, retryAfter |-> FALSE]

\* a faulty variant: the rejection tells whether some key has the value's length
apiKeyGuard_LengthHint(key, keys) ==
    IF key.type = "undefined" \/ key.value = <<>> \/ key.type = "array"
    THEN [out |-> "response", res |-> Json(401, "MISSING_API_KEY")]
    ELSE LET valid == isValidApiKey(key.value, keys)
         IN  CASE valid = "true"  -> [out |-> "next", res |-> NoResponse]
               [] valid = "false" ->
                    [out |-> "response",
                     res |-> Json(401, IF \E i \in DOMAIN keys : Len(keys[i]) = Len(key.value)
                                       THEN "INVALID_API_KEY" ELSE "KEY_LENGTH_MISMATCH")]
               [] OTHER           -> [out |-> "throw", res |-> NoResponse]

\* the guard's decision for a header value: a response, next(), or an exception
apiKeyGuard(key, keys) ==
    IF key.type = "undefined" \/ key.value = <<>> \/ key.type = "array"
    THEN [out |-> "response", res |-> Json(401, "MISSING_API_KEY")]
    ELSE LET valid == isValidApiKey(key.value, keys)
         IN  CASE valid = "true"  -> [out |-> "next", res |-> NoResponse]
               [] valid = "false" -> [out |-> "response", res |-> Json(401, "INVALID_API_KEY")]
               [] OTHER           -> [out |-> "throw", res |-> NoResponse]

\* ------------------------------------------------------------------------
\* Requests
\* ------------------------------------------------------------------------

HealthPath == <<"api", "v1", "health">>
StatusPath == <<"api", "v1", "services", "status">>
FwAnalysisPrefix == <<"api", "v1", "fw-analysis">>
BackproPrefix == <<"api", "v1", "backpro">>

Upstreams == {"fwAnalysis", "backpro"}

\* the process once index.ts has loaded the configuration and listens
NoEnv == <<>>
Listening == [phase |-> "listening", env |-> NoEnv, exitCode |-> 0]

NoOutcome == [kind |-> "", status |-> 0]
IdleProbe ==
    [state |-> "idle", startTime |-> 0, status |-> "", latencyMs |-> 0,
     outcome |-> NoOutcome]

NoBody == [status |-> "", gateway |-> ""]

\* what res.json / res.end wrote: nothing yet, a JSON object or plain text
NothingSent == [format |-> "none", json |-> <<>>]
JsonBody(object) == [format |-> "json", json |-> object]
TextBody == [format |-> "text", json |-> <<>>]

\* no exception raised
NoError == [name |-> "", message |-> "", statusCode |-> 0, code |-> "", body |-> FALSE]

\* how the upstream call of a router ended
NoReply == [kind |-> "", status |-> 0, json |-> FALSE]

\* the request a router sends to its upstream
NoForward == [target |-> "", route |-> "", method |-> "", headers |-> {}, payload |-> ""]

NoHeader == [kind |-> "absent", value |-> <<>>]
Single(v) == [kind |-> "single", value |-> v]

Idle ==
    [pc |-> "idle", method |-> "", path |-> <<>>, adminKey |-> NoHeader,
     xff |-> NoHeader, ip |-> <<>>, res |-> NoResponse, err |-> "",
     seq |-> 0, key |-> <<>>, hits |-> 0, window |-> 0,
     probe |-> [u \in Upstreams |-> IdleProbe], body |-> NoBody,
     guard |-> "", sentAt |-> 0, trace |-> <<>>,
     payload |-> "none", headers |-> {}, sent |-> NothingSent,
     fwd |-> NoForward, reply |-> NoReply, thrown |-> NoError]


IsPrefix(p, s) == Len(p) <= Len(s) /\ SubSeq(s, 1, Len(p)) = p

\* the {status, code, message} object of the gateway's error responses
ErrorEnvelope(code, message) == [status |-> "error", code |-> code, message |-> message]

\* the message literal that goes with a code
FixedMessage(code) ==
    CASE code = "MISSING_API_KEY" -> "API key is required in x-fw-admin-key header"
      [] code = "INVALID_API_KEY" -> "Invalid API key"
      [] code = "RATE_LIMITED"    -> "Too many requests, please try again later"
      [] code = "INVALID_JSON"    -> "Invalid JSON in request body"
      [] code = "NOT_FOUND"       -> "Route not found"
      [] OTHER                    -> "An internal error occurred"

Send(q, status, code) ==
    [q EXCEPT !.pc = "responded", !.res = Json(status, code),
              !.sent = IF code = "" THEN JsonBody([status |-> "ok"])
                       ELSE JsonBody(ErrorEnvelope(code, FixedMessage(code)))]

\* ------------------------------------------------------------------------
\* middleware/rateLimiter.ts
\* ------------------------------------------------------------------------

Unknown == <<117, 110, 107, 110, 111, 119, 110>>

RECURSIVE FirstEntry(_)
\* forwarded.split(",")[0]
FirstEntry(s) ==
    IF s = <<>> \/ Head(s) = 44 THEN <<>> ELSE <<Head(s)>> \o FirstEntry(Tail(s))

\* String.prototype.trim on the characters a header can hold
StringTrim(s) == HeaderTrim(s)

\* a faulty variant: the whole header is the key
keyGenerator_WholeHeader(q) ==
    IF q.xff.kind = "single" THEN StringTrim(HeaderTrim(q.xff.value))
    ELSE IF q.ip # <<>> THEN q.ip ELSE Unknown

keyGenerator(q) ==
    IF q.xff.kind = "single" THEN StringTrim(FirstEntry(HeaderTrim(q.xff.value)))
    ELSE IF q.ip # <<>> THEN q.ip ELSE Unknown

\* a faulty variant: the exemption names another path
skip_WrongPath(q) == q.path = <<"health">>

skip(q) == q.path = HealthPath

\* a faulty variant: a window that has elapsed is never replaced
increment_NoReset(st, key, t, windowMs) ==
    LET client == IF key \notin DOMAIN st THEN [totalHits |-> 0, resetTime |-> t + windowMs]
                  ELSE st[key]
        counted == [client EXCEPT !.totalHits = @ + 1]
    IN  [k \in DOMAIN st \cup {key} |-> IF k = key THEN counted ELSE st[k]]

\* a faulty variant: a hit is counted against every client with an open window
increment_EveryKey(st, key, t, windowMs) ==
    [k \in DOMAIN st \cup {key} |->
       IF k \in DOMAIN st /\ st[k].resetTime > t
       THEN [st[k] EXCEPT !.totalHits = @ + 1]
       ELSE IF k = key THEN [totalHits |-> 1, resetTime |-> t + windowMs]
       ELSE st[k]]

\* a faulty variant: the write of the count is lost (every hit is stored as the first)
increment_LostUpdate(st, key, t, windowMs) ==
    LET fresh == key \notin DOMAIN st \/ st[key].resetTime <= t
        client == IF fresh THEN [totalHits |-> 0, resetTime |-> t + windowMs]
                  ELSE st[key]
        counted == [client EXCEPT !.totalHits = 1]
    IN  [k \in DOMAIN st \cup {key} |-> IF k = key THEN counted ELSE st[k]]

\* the store's increment: a key without an entry, or whose window has elapsed,
\* starts a new window; the hit is then counted
increment(st, key, t, windowMs) ==
    LET fresh == key \notin DOMAIN st \/ st[key].resetTime <= t
        client == IF fresh THEN [totalHits |-> 0, resetTime |-> t + windowMs]
                  ELSE st[key]
        counted == [client EXCEPT !.totalHits = @ + 1]
    IN  [k \in DOMAIN st \cup {key} |-> IF k = key THEN counted ELSE st[k]]

\* a faulty variant: the request that reaches the limit is already rejected
OverLimit_OffByOne(totalHits, limit) == totalHits >= limit

OverLimit(totalHits, limit) == totalHits > limit

\* a faulty variant: the hit just counted is left out of the remaining budget
remaining_BeforeHit(totalHits, limit) ==
    IF limit - totalHits + 1 > 0 THEN limit - totalHits + 1 ELSE 0

\* the "remaining" of the combined RateLimit header: Math.max(limit - totalHits, 0)
remaining(totalHits, limit) == IF limit - totalHits > 0 THEN limit - totalHits ELSE 0

\* the combined RateLimit header of a counted request (draft-7: limit, remaining)
RateLimit(q) ==
    [limit |-> config.rateLimit.maxRequests,
     remaining |-> remaining(q.hits, config.rateLimit.maxRequests)]

\* standardHeaders "draft-7": the combined RateLimit header and RateLimit-Policy
RateLimitHeaders == {"ratelimit", "ratelimit-policy"}

\* ------------------------------------------------------------------------
\* app.ts: createApp. An action is one turn of the event loop: a handler runs
\* until it awaits. The limiter awaits its store, the status handler its
\* probes and a router its upstream.
\* ------------------------------------------------------------------------

\* exceptions: a plain Error of some class, an ApiError, and the SyntaxError
\* body-parser raises for a body that is not JSON (it carries a body property)
Error(name, message) ==
    [name |-> name, message |-> message, statusCode |-> 0, code |-> "", body |-> FALSE]
ApiError(statusCode, code, message) ==
    [name |-> "ApiError", message |-> message, statusCode |-> statusCode,
     code |-> code, body |-> FALSE]
BodySyntaxError(message) ==
    [name |-> "SyntaxError", message |-> message, statusCode |-> 400, code |-> "",
     body |-> TRUE]

\* what crypto.timingSafeEqual throws for buffers of different byte length
ByteLengthError == Error("RangeError", "Input buffers must have the same byte length")

InternalErrorMessage == "An internal error occurred"

\* a faulty variant: the parser's text is sent for a body that is not JSON
errorHandler_ParserDetail(err, isProduction) ==
    IF err.name = "ApiError"
    THEN [status |-> err.statusCode, code |-> err.code, message |-> err.message]
    ELSE IF err.name = "SyntaxError" /\ err.body
    THEN [status |-> 400, code |-> "INVALID_JSON", message |-> err.message]
    ELSE [status |-> 500, code |-> "INTERNAL_ERROR",
          message |-> IF isProduction THEN InternalErrorMessage ELSE err.message]

\* a faulty variant: the exception text is sent in production too
errorHandler_LeakText(err, isProduction) ==
    IF err.name = "ApiError"
    THEN [status |-> err.statusCode, code |-> err.code, message |-> err.message]
    ELSE IF err.name = "SyntaxError" /\ err.body
    THEN [status |-> 400, code |-> "INVALID_JSON", message |-> FixedMessage("INVALID_JSON")]
    ELSE [status |-> 500, code |-> "INTERNAL_ERROR", message |-> err.message]

\* the response of errorHandler for an exception
errorHandler(err, isProduction) ==
    IF err.name = "ApiError"
    THEN [status |-> err.statusCode, code |-> err.code, message |-> err.message]
    ELSE IF err.name = "SyntaxError" /\ err.body
    THEN [status |-> 400, code |-> "INVALID_JSON", message |-> FixedMessage("INVALID_JSON")]
    ELSE [status |-> 500, code |-> "INTERNAL_ERROR",
          message |-> IF isProduction THEN InternalErrorMessage ELSE err.message]

\* an exception thrown by a middleware is handed to errorHandler
Thrown(q, err) ==
    LET e == errorHandler(err, config.isProduction)
    IN  [Send([q EXCEPT !.err = err.name, !.thrown = err,
                        !.trace = Append(@, "errorHandler")],
              e.status, e.code)
           EXCEPT !.sent = JsonBody(ErrorEnvelope(e.code, e.message))]

\* the names of the headers of a request
RequestHeaders(q) ==
    {"host"} \cup (IF q.adminKey.kind = "absent" THEN {} ELSE {"x-fw-admin-key"})
             \cup (IF q.xff.kind = "absent" THEN {} ELSE {"x-forwarded-for"})
             \cup (IF q.payload = "none" THEN {} ELSE {"content-type", "content-length"})

\* a faulty variant: the proxyReq hook removes nothing
ProxyHeaders_KeepKey(q) == RequestHeaders(q)

\* on.proxyReq: proxyReq.removeHeader("x-fw-admin-key")
ProxyHeaders(q) == RequestHeaders(q) \ {"x-fw-admin-key"}

\* the body the proxy pipes to the upstream: express.json has read a JSON body
\* to its end before the router runs, so nothing is left of it in the stream
ProxyPayload(payload) == IF payload = "json" THEN "drained" ELSE payload

\* the router mounted on the prefix takes the request over and calls its
\* upstream: GET <prefix>/health fetches the upstream's /health, everything
\* else goes through the proxy
Routed(q) ==
    LET fw == IsPrefix(FwAnalysisPrefix, q.path)
        prefix == IF fw THEN FwAnalysisPrefix ELSE BackproPrefix
        health == q.method = "GET" /\ q.path = prefix \o <<"health">>
    IN  [q EXCEPT !.pc = "forwarded",
                  !.trace = Append(@, IF fw THEN "fwAnalysisRouter" ELSE "backproRouter"),
                  !.fwd = IF health
                          THEN [target |-> IF fw THEN "fwAnalysis" ELSE "backpro",
                                route |-> "health", method |-> "GET",
                                headers |-> IF fw THEN {} ELSE {"accept"},
                                payload |-> "none"]
                          ELSE [target |-> IF fw THEN "fwAnalysis" ELSE "backpro",
                                route |-> "proxy", method |-> q.method,
                                headers |-> ProxyHeaders(q),
                                payload |-> ProxyPayload(q.payload)]]

\* a faulty variant: the guard answers 401 and calls next all the same
Guarded_NoShortCircuit(q0) ==
    LET q == [q0 EXCEPT !.trace = Append(@, "apiKeyGuard")]
        d == apiKeyGuard(IncomingHeader(q.adminKey), config.apiKeys)
    IN  CASE d.out = "response" -> Routed(Send(q, d.res.status, d.res.code))
          [] d.out = "next"     -> Routed([q EXCEPT !.guard = "admitted"])
          [] OTHER              -> Thrown(q, ByteLengthError)

\* app.use(prefix, apiKeyGuard, router)
Guarded(q0) ==
    LET q == [q0 EXCEPT !.trace = Append(@, "apiKeyGuard")]
        d == apiKeyGuard(IncomingHeader(q.adminKey), config.apiKeys)
    IN  CASE d.out = "response" -> Send(q, d.res.status, d.res.code)
          [] d.out = "next"     -> Routed([q EXCEPT !.guard = "admitted"])
          [] OTHER              -> Thrown(q, ByteLengthError)

\* checkServiceHealth up to its await: the timer is armed and the fetch is sent
StartProbe(t) == [IdleProbe EXCEPT !.state = "pending", !.startTime = t]

\* a faulty variant: the second probe is not started with the first
StartProbes_Sequential(t) ==
    [u \in Upstreams |-> IF u = "fwAnalysis" THEN StartProbe(t) ELSE IdleProbe]

\* both calls of the Promise.all argument run before the handler awaits
StartProbes(t) == [u \in Upstreams |-> StartProbe(t)]

Protected(path) == IsPrefix(FwAnalysisPrefix, path) \/ IsPrefix(BackproPrefix, path)

\* a faulty variant: the logger is registered before the body parsers
ParsingAndLogging_Swapped == <<"httpLogger", "bodyParser">>

\* app.use(express.json), app.use(express.urlencoded), then app.use(httpLogger)
\* and app.use(requestIdHeader)
ParsingAndLogging == <<"bodyParser", "httpLogger">>

\* body parsing (express.json throws for a body that is not JSON), request
\* logging and the x-request-id header, then the first route that matches
Dispatched(q0, t) ==
    LET q == [q0 EXCEPT !.trace = @ \o ParsingAndLogging,
                        !.headers = @ \cup {"x-request-id"}]
    IN  CASE q0.payload = "badjson" ->
               Thrown([q0 EXCEPT !.trace = Append(@, "bodyParser")],
                      BodySyntaxError("Unexpected token"))
          [] q.method = "GET" /\ q.path = HealthPath ->
               Send([q EXCEPT !.trace = Append(@, "health")], 200, "")
          [] q.method = "GET" /\ q.path = StatusPath ->
               [q EXCEPT !.pc = "awaitProbes", !.probe = StartProbes(t),
                         !.trace = Append(@, "status")]
          [] Protected(q.path) -> Guarded(q)
          [] OTHER ->
               Send([q EXCEPT !.trace = Append(@, "notFound")], 404, "NOT_FOUND")

\* a request comes in: security headers and CORS run, then the limiter, when
\* the app has one, awaits its store (requests are numbered as they arrive)
ReceiveWith(r, methods, paths, adminKeys, xffs, payloads) ==
    /\ req[r].pc = "idle"
    /\ \A s \in DOMAIN req : s < r => req[s].pc # "idle"
    /\ \E m \in methods, p \in paths, k \in adminKeys, x \in xffs, b \in payloads :
         LET q == [Idle EXCEPT !.pc = "rateLimiter", !.method = m, !.path = p,
                               !.adminKey = k, !.xff = x, !.ip = <<57>>,
                               !.payload = b,
                               !.headers = {"x-content-type-options"},
                               !.trace = <<"securityHeaders", "cors">>]
         IN  req' = [req EXCEPT ![r] = IF config.skipRateLimiter
                                       THEN Dispatched(q, now) ELSE q]
    /\ UNCHANGED <<config, now, store, upstream, proc>>

\* a request without a body
Receive(r, methods, paths, adminKeys, xffs) ==
    ReceiveWith(r, methods, paths, adminKeys, xffs, {"none"})

\* the limiter resumes with the count of its store, then the rest of the
\* pipeline runs for a request it lets through
RateLimiter(r) ==
    LET q == [req[r] EXCEPT !.trace = Append(@, "rateLimiter")]
        key == keyGenerator(q)
        st == increment(store, key, now, config.rateLimit.windowMs)
        totalHits == st[key].totalHits
        counted == [q EXCEPT !.seq = 1 + Cardinality({s \in DOMAIN req : req[s].seq > 0}),
                             !.key = key, !.hits = totalHits,
                             !.window = st[key].resetTime,
                             !.headers = @ \cup RateLimitHeaders]
    IN  /\ req[r].pc = "rateLimiter"
        /\ IF skip(q)
           THEN /\ req' = [req EXCEPT ![r] = Dispatched(q, now)]
                /\ store' = store
           ELSE /\ store' = st
                /\ req' = [req EXCEPT ![r] =
                     IF OverLimit(totalHits, config.rateLimit.maxRequests)
                     THEN [counted EXCEPT !.pc = "responded",
                                          !.res = [status |-> 429, code |-> "RATE_LIMITED",
                                                   retryAfter |-> TRUE],
                                          !.headers = @ \cup {"retry-after"},
                                          !.sent = JsonBody(ErrorEnvelope("RATE_LIMITED",
                                                     FixedMessage("RATE_LIMITED")))]
                     ELSE Dispatched(counted, now)]
        /\ UNCHANGED <<config, now, upstream, proc>>

\* the guard mounted alone in front of a route
GuardStep(r) ==
    /\ req[r].pc = "apiKeyGuard"
    /\ req' = [req EXCEPT ![r] = Guarded(req[r])]
    /\ UNCHANGED <<config, now, store, upstream, proc>>

\* ------------------------------------------------------------------------
\* app.ts: GET /api/v1/services/status and checkServiceHealth
\* ------------------------------------------------------------------------

\* the ways a fetch ends: a response with its HTTP status, or a rejection
\* (a network error, or the abort of the signal)
UpstreamStatuses == {200, 204, 503}
Outcomes == [kind : {"response"}, status : UpstreamStatuses]
                \cup {[kind |-> "error", status |-> 0]}
Aborted == [kind |-> "abort", status |-> 0]

\* a faulty variant: only 200 counts as a success
ResponseOk_Only200(status) == status = 200

\* response.ok: the status is in the range 200-299
ResponseOk(status) == status >= 200 /\ status <= 299

\* the record a probe resolves to, for the way its fetch ended
ProbeRecord(p, outcome, t) ==
    [state |-> "done", startTime |-> p.startTime,
     status |-> IF outcome.kind = "response" /\ ResponseOk(outcome.status)
                THEN "healthy" ELSE "unhealthy",
     latencyMs |-> t - p.startTime,
     outcome |-> outcome]

AllDone(probes) == \A u \in Upstreams : probes[u].state = "done"

\* a faulty variant: one healthy upstream is enough
allHealthy_Any(probes) ==
    probes["fwAnalysis"].status = "healthy" \/ probes["backpro"].status = "healthy"

allHealthy(probes) ==
    probes["fwAnalysis"].status = "healthy" /\ probes["backpro"].status = "healthy"

\* the continuation of the handler once Promise.all has every record
Join(q) ==
    IF AllDone(q.probe)
    THEN [Send(q, 200, "") EXCEPT
            !.sentAt = now,
            !.body = [status |-> IF allHealthy(q.probe) THEN "healthy" ELSE "degraded",
                      gateway |-> "healthy"],
            !.sent = JsonBody([status |-> IF allHealthy(q.probe) THEN "healthy"
                                          ELSE "degraded"])]
    ELSE q

\* a faulty variant: the abort timer is armed with twice the delay
Deadline_Late(p) == p.startTime + 2 * ProbeTimeoutMs

Deadline(p) == p.startTime + ProbeTimeoutMs

\* the fetch of a probe settles: a response (ok or not) or a network error
ProbeSettle(r, u, outcomes) ==
    /\ req[r].pc = "awaitProbes"
    /\ req[r].probe[u].state = "pending"
    /\ upstream[u] = "responsive"
    /\ now <= Deadline(req[r].probe[u])
    /\ \E outcome \in outcomes :
         req' = [req EXCEPT ![r] =
                   Join([req[r] EXCEPT !.probe[u] = ProbeRecord(@, outcome, now)])]
    /\ UNCHANGED <<config, now, store, upstream, proc>>

\* the abort timer of a probe fires: the fetch rejects and the catch branch runs
ProbeAbort(r, u) ==
    /\ req[r].pc = "awaitProbes"
    /\ req[r].probe[u].state = "pending"
    /\ now >= Deadline(req[r].probe[u])
    /\ req' = [req EXCEPT ![r] =
                 Join([req[r] EXCEPT !.probe[u] = ProbeRecord(@, Aborted, now)])]
    /\ UNCHANGED <<config, now, store, upstream, proc>>

\* ------------------------------------------------------------------------
\* Time
\* ------------------------------------------------------------------------

\* time passes, but never beyond a timer that is due (a timer runs at the
\* instant it was set for); the clock stops at maxTime once no timer is armed
Tick(maxTime) ==
    LET due == {Deadline(req[x[1]].probe[x[2]]) :
                  x \in {y \in (DOMAIN req) \X Upstreams :
                           /\ req[y[1]].pc = "awaitProbes"
                           /\ req[y[1]].probe[y[2]].state = "pending"}}
        target == now + TickMs
    IN  /\ now < maxTime \/ due # {}
        /\ \A d \in due : d > now
        /\ now' = IF \E d \in due : d < target
                  THEN CHOOSE d \in due : \A e \in due : d <= e
                  ELSE target
        /\ UNCHANGED <<config, store, upstream, req, proc>>

\* ------------------------------------------------------------------------
\* The guard alone, mounted in front of one route, for every header value
\* ------------------------------------------------------------------------

\* characters of a header value: space, "A", "a" and e-acute (two UTF-8 bytes)
HeaderAlphabet == {32, 65, 97, 233}

\* characters of a configured key
KeyAlphabet == {97, 233}

\* the x-fw-admin-key header as sent: absent, repeated (an array), or one value
WireHeaders ==
    {NoHeader, [kind |-> "array", value |-> <<>>]}
        \cup {Single(v) : v \in Strings(HeaderAlphabet, MaxHeaderLen)}

\* config.apiKeys: a non-empty list of non-empty keys without surrounding blanks
ApiKeys == Strings(KeyAlphabet, MaxHeaderLen - 1) \ {<<>>}
ApiKeyLists == [1..1 -> ApiKeys] \cup [1..2 -> ApiKeys]

Config(keys, windowMs, maxRequests, skipRateLimiter) ==
    [apiKeys |-> keys,
     rateLimit |-> [windowMs |-> windowMs, maxRequests |-> maxRequests],
     skipRateLimiter |-> skipRateLimiter,
     isProduction |-> FALSE]

ProtectedPath == FwAnalysisPrefix \o <<"health">>

InitGuard ==
    /\ config \in {Config(keys, 2 * TickMs, 1, TRUE) : keys \in ApiKeyLists}
    /\ now = 0
    /\ store = <<>>
    /\ upstream = [u \in Upstreams |-> "responsive"]
    /\ req \in {[r \in {1} |-> [Idle EXCEPT !.pc = "apiKeyGuard", !.method = "GET",
                                            !.path = ProtectedPath, !.adminKey = k]] :
                  k \in WireHeaders}
    /\ proc = Listening

NextGuard == \E r \in DOMAIN req : GuardStep(r)

SpecGuard == InitGuard /\ [][NextGuard]_vars

\* the value the guard reads, when it is a single string
KeyValue(q) == IncomingHeader(q.adminKey)
Decided(q) == q.pc \in {"forwarded", "responded"}
Configured(v) == \E i \in 1..Len(config.apiKeys) : config.apiKeys[i] = v

\* C1: a header value equal to a configured key is admitted (next is called and
\* no response is sent); every non-empty value equal to no configured key is
\* answered 401 INVALID_API_KEY.
C1_KeyEquivalence ==
    \A r \in DOMAIN req :
      LET q == req[r]
          k == KeyValue(q)
      IN  (Decided(q) /\ k.type = "string" /\ k.value # <<>>) =>
            IF Configured(k.value)
            THEN q.guard = "admitted" /\ q.res = NoResponse
            ELSE q.res = Json(401, "INVALID_API_KEY")

\* C2: no header, a repeated header, an empty or a blank value are answered
\* 401 MISSING_API_KEY; every non-empty value that matches no key is answered
\* 401 INVALID_API_KEY.
C2_MissingVsInvalid ==
    \A r \in DOMAIN req :
      LET q == req[r]
          k == KeyValue(q)
      IN  Decided(q) =>
            /\ (k.type # "string" \/ k.value = <<>>) => q.res = Json(401, "MISSING_API_KEY")
            /\ (k.type = "string" /\ k.value # <<>> /\ ~Configured(k.value)) =>
                 q.res = Json(401, "INVALID_API_KEY")

\* ------------------------------------------------------------------------
\* The rate limiter in front of the public routes
\* ------------------------------------------------------------------------

TestPath == <<"api", "test">>

\* x-forwarded-for as sent: absent, or "1"
RateXffs == {NoHeader, Single(<<49>>)}

InitRate ==
    /\ config \in {Config(<<<<97>>>>, TickMs, n, FALSE) : n \in 1..(RateRequests - 1)}
    /\ now = 0
    /\ store = <<>>
    /\ upstream = [u \in Upstreams |-> "responsive"]
    /\ req = [r \in 1..RateRequests |-> Idle]
    /\ proc = Listening

NextRate ==
    \/ \E r \in DOMAIN req : Receive(r, {"GET"}, {HealthPath, TestPath}, {NoHeader}, RateXffs)
    \/ \E r \in DOMAIN req : RateLimiter(r)
    \/ Tick(MaxTime)

SpecRate == InitRate /\ [][NextRate]_vars

\* the requests the limiter has counted, and those it let through
Counted(r) == req[r].seq > 0
SameWindow(r, s) == req[r].key = req[s].key /\ req[r].window = req[s].window
\* the position of a counted request among those of its key and window
Rank(r) ==
    Cardinality({s \in DOMAIN req : Counted(s) /\ SameWindow(r, s) /\ req[s].seq <= req[r].seq})
Last(t) == t[Len(t)]
Rejected429(q) ==
    /\ q.pc = "responded"
    /\ q.res = [status |-> 429, code |-> "RATE_LIMITED", retryAfter |-> TRUE]
    /\ Last(q.trace) = "rateLimiter"

\* C3: of the counted requests of one client key in one window, the first N go
\* on to the next middleware; the (N+1)th and every later one is answered 429
\* RATE_LIMITED with Retry-After, and nothing after the limiter runs for it.
C3_RateWindow ==
    \A r \in DOMAIN req :
      Counted(r) =>
        IF Rank(r) <= config.rateLimit.maxRequests
        THEN req[r].res.status # 429 /\ req[r].pc # "rateLimiter"
             /\ \E i \in 1..Len(req[r].trace) : req[r].trace[i] = "rateLimiter"
        ELSE Rejected429(req[r])

\* the (N+1)th and the (N+2)th request of a key are rejected after N were let through
C3_Witness ==
    \E r, s \in DOMAIN req :
      /\ Counted(r) /\ Counted(s) /\ SameWindow(r, s)
      /\ Rank(r) = config.rateLimit.maxRequests /\ req[r].pc = "responded"
      /\ req[r].res.status = 404
      /\ Rank(s) = config.rateLimit.maxRequests + 1 /\ Rejected429(req[s])

\* C4: whatever the interleaving of the requests in flight, the limiter lets
\* at most N requests of one client key through in one window.
C4_AtomicAdmission ==
    \A r \in DOMAIN req :
      Counted(r) =>
        Cardinality({s \in DOMAIN req :
                       Counted(s) /\ SameWindow(r, s) /\ req[s].res.status # 429})
          <= config.rateLimit.maxRequests

\* two requests in flight at once with one slot left: the one that arrived
\* first is counted second and rejected
C4_Witness ==
    \E r, s \in DOMAIN req :
      /\ s < r /\ Counted(r) /\ Counted(s) /\ SameWindow(r, s)
      /\ req[r].seq < req[s].seq
      /\ req[r].hits = config.rateLimit.maxRequests /\ req[r].res.status # 429
      /\ Rejected429(req[s])

\* C5: a request for /api/v1/health is never answered 429, and the limiter
\* leaves every counter as it is when such a request passes.
C5_HealthNeverLimited ==
    \A r \in DOMAIN req :
      req[r].path = HealthPath => req[r].res.status # 429 /\ ~Counted(r)

C5_HealthNeverCounted ==
    \A r \in DOMAIN req :
      (req[r].pc = "rateLimiter" /\ req[r].path = HealthPath /\ req'[r].pc # "rateLimiter")
        => store' = store

C5_HealthExemption == []C5_HealthNeverLimited /\ [][C5_HealthNeverCounted]_vars

\* a health request is served after its client's budget is used up
C5_Witness ==
    \E r, s \in DOMAIN req :
      /\ s < r /\ Rejected429(req[s]) /\ req[s].key = keyGenerator(req[r])
      /\ req[r].path = HealthPath /\ req[r].res.status = 200
      /\ store[req[s].key].totalHits > config.rateLimit.maxRequests

\* ------------------------------------------------------------------------
\* The aggregated status of createApp({skipRateLimiter: true})
\* ------------------------------------------------------------------------

InitStatus ==
    /\ config = Config(<<<<97>>>>, TickMs, 1, TRUE)
    /\ now = 0
    /\ store = <<>>
    /\ upstream \in [Upstreams -> {"responsive", "silent"}]
    /\ req = [r \in 1..StatusRequests |-> Idle]
    /\ proc = Listening

NextStatus ==
    \/ \E r \in DOMAIN req : Receive(r, {"GET"}, {StatusPath}, {NoHeader}, {NoHeader})
    \/ \E r \in DOMAIN req, u \in Upstreams : ProbeSettle(r, u, Outcomes)
    \/ \E r \in DOMAIN req, u \in Upstreams : ProbeAbort(r, u)
    \/ Tick(ProbeTimeoutMs)

SpecStatus == InitStatus /\ [][NextStatus]_vars

\* the event loop runs the timers that are due, and time passes
LiveStatus ==
    /\ SpecStatus
    /\ WF_vars(Tick(ProbeTimeoutMs))
    /\ \A r \in 1..StatusRequests, u \in Upstreams : WF_vars(ProbeAbort(r, u))

StatusSent(r) == req[r].path = StatusPath /\ req[r].pc = "responded"

\* C6: the overall status of the response is "healthy" if and only if the
\* records of fwAnalysis and backpro are both "healthy", otherwise "degraded";
\* the gateway's own status is always "healthy".
C6_AggregatedVerdict ==
    \A r \in DOMAIN req :
      StatusSent(r) =>
        /\ req[r].body.status =
             IF \A u \in Upstreams : req[r].probe[u].status = "healthy"
             THEN "healthy" ELSE "degraded"
        /\ req[r].body.gateway = "healthy"

\* one upstream healthy, the other not: degraded
C6_Witness ==
    \E r \in DOMAIN req :
      /\ StatusSent(r) /\ req[r].body.status = "degraded"
      /\ req[r].probe["fwAnalysis"].status = "healthy"
      /\ req[r].probe["backpro"].status = "unhealthy"

\* C7: a probe resolves to a record for every way its fetch can end, healthy
\* exactly when the response status is in 200..299; the record of one upstream
\* is not touched when another probe resolves, and the status request is
\* answered 200 with a record for both upstreams.
C7_Records ==
    \A r \in DOMAIN req :
      /\ \A u \in Upstreams :
           req[r].probe[u].state = "done" =>
             LET p == req[r].probe[u]
             IN  /\ p.outcome.kind \in {"response", "error", "abort"}
                 /\ p.status \in {"healthy", "unhealthy"}
                 /\ p.status = "healthy" <=>
                      (p.outcome.kind = "response"
                         /\ p.outcome.status \in 200..299)
                 /\ p.latencyMs >= 0
      /\ req[r].path = StatusPath =>
           /\ req[r].pc \in {"awaitProbes", "responded"}
           /\ req[r].pc = "responded" =>
                /\ req[r].res.status = 200
                /\ \A u \in Upstreams : req[r].probe[u].state = "done"

C7_Independent ==
    \A r \in DOMAIN req : \A u, v \in Upstreams :
      (u # v /\ req[r].probe[u].state = "pending" /\ req'[r].probe[u].state = "done")
        => req'[r].probe[v] = req[r].probe[v]

C7_ProbeTotality == []C7_Records /\ [][C7_Independent]_vars

\* one probe got a 204 and the other a network error; both records are there
C7_Witness ==
    \E r \in DOMAIN req :
      /\ StatusSent(r) /\ req[r].res.status = 200
      /\ req[r].probe["fwAnalysis"].outcome = [kind |-> "error", status |-> 0]
      /\ req[r].probe["fwAnalysis"].status = "unhealthy"
      /\ req[r].probe["backpro"].outcome = [kind |-> "response", status |-> 204]
      /\ req[r].probe["backpro"].status = "healthy"

\* C8: a probe of an upstream that never answers is pending for at most
\* 5000 ms, and it eventually completes as unhealthy.
C8_Bounded ==
    \A r \in DOMAIN req : \A u \in Upstreams :
      LET p == req[r].probe[u]
      IN  /\ p.state = "pending" => now - p.startTime <= ProbeTimeoutMs
          /\ (p.state = "done" /\ upstream[u] = "silent") =>
               p.status = "unhealthy" /\ p.latencyMs <= ProbeTimeoutMs

C8_TimeoutBound ==
    /\ []C8_Bounded
    /\ \A r \in 1..StatusRequests : \A u \in Upstreams :
         (upstream[u] = "silent" /\ req[r].probe[u].state = "pending")
           ~> (req[r].probe[u].state = "done" /\ req[r].probe[u].status = "unhealthy")

\* the probe of a silent upstream was aborted when its 5000 ms were over
C8_Witness ==
    \E r \in DOMAIN req : \E u \in Upstreams :
      /\ upstream[u] = "silent"
      /\ req[r].probe[u].state = "done"
      /\ req[r].probe[u].outcome = Aborted
      /\ req[r].probe[u].latencyMs = ProbeTimeoutMs

\* C9: when a probe has completed every probe had been started by then; the
\* response is sent only when all probes have resolved, and no later than one
\* probe timeout after the handler started them.
C9_FanOutFanIn ==
    \A r \in DOMAIN req :
      /\ \A u, v \in Upstreams :
           req[r].probe[u].state = "done" =>
             /\ req[r].probe[v].state # "idle"
             /\ req[r].probe[v].startTime
                  <= req[r].probe[u].startTime + req[r].probe[u].latencyMs
      /\ StatusSent(r) =>
           /\ \A u \in Upstreams : req[r].probe[u].state = "done"
           /\ \A u \in Upstreams :
                req[r].sentAt - req[r].probe[u].startTime <= ProbeTimeoutMs
      /\ (req[r].path = StatusPath /\ \A u \in Upstreams : req[r].probe[u].state = "done")
           => req[r].pc = "responded"

\* both upstreams silent: the response leaves after 5000 ms, not 10000
C9_Witness ==
    \E r \in DOMAIN req :
      /\ StatusSent(r)
      /\ \A u \in Upstreams : req[r].probe[u].outcome = Aborted
      /\ \A u \in Upstreams : req[r].sentAt - req[r].probe[u].startTime = ProbeTimeoutMs

\* ------------------------------------------------------------------------
\* The application as createApp() builds it: limiter, public routes, guarded
\* routers
\* ------------------------------------------------------------------------

AppPaths ==
    {HealthPath, StatusPath, FwAnalysisPrefix \o <<"health">>,
     BackproPrefix \o <<"jobs">>, TestPath}

\* x-fw-admin-key as sent: absent, the configured key "a", or e-acute
AppKeys == {NoHeader, Single(<<97>>), Single(<<233>>)}

Init ==
    /\ config = Config(<<<<97>>>>, TickMs, 1, FALSE)
    /\ now = 0
    /\ store = <<>>
    /\ upstream = [u \in Upstreams |-> IF u = "fwAnalysis" THEN "responsive" ELSE "silent"]
    /\ req = [r \in 1..AppRequests |-> Idle]
    /\ proc = Listening

Next ==
    \/ \E r \in DOMAIN req : Receive(r, {"GET"}, AppPaths, AppKeys, {NoHeader})
    \/ \E r \in DOMAIN req : RateLimiter(r)
    \/ \E r \in DOMAIN req, u \in Upstreams :
         ProbeSettle(r, u, {[kind |-> "response", status |-> 200]})
    \/ \E r \in DOMAIN req, u \in Upstreams : ProbeAbort(r, u)
    \/ Tick(TickMs)

Spec == Init /\ [][Next]_vars

Routers == {"fwAnalysisRouter", "backproRouter"}
Position(t, name) == {i \in 1..Len(t) : t[i] = name}
Public(q) == q.method = "GET" /\ q.path \in {HealthPath, StatusPath}

\* C10: a router of a protected prefix runs for a request only after
\* apiKeyGuard ran for it and admitted a header value that equals a configured
\* key; GET /api/v1/health and GET /api/v1/services/status never pass through
\* the guard and are answered 200 whatever the key header, unless the limiter
\* rejected them.
C10_AuthScope ==
    \A r \in DOMAIN req :
      LET q == req[r]
          k == KeyValue(q)
      IN  /\ (q.pc = "forwarded" \/ \E n \in Routers : Position(q.trace, n) # {}) =>
                /\ Protected(q.path)
                /\ q.guard = "admitted"
                /\ \E i \in Position(q.trace, "apiKeyGuard") :
                     \A n \in Routers : \A j \in Position(q.trace, n) : i < j
                /\ k.type = "string" /\ Configured(k.value)
          /\ (Protected(q.path) /\ Position(q.trace, "httpLogger") # {}) =>
                Position(q.trace, "apiKeyGuard") # {}
          /\ Public(q) =>
                /\ Position(q.trace, "apiKeyGuard") = {}
                /\ q.res.status \in {0, 200, 429}
                /\ (q.pc = "responded" /\ ~Rejected429(q)) => q.res.status = 200

\* a request with the configured key is with the backpro router, and a status
\* request without a key was answered 200
C10_Witness ==
    \E r, s \in DOMAIN req :
      /\ req[r].pc = "forwarded" /\ Last(req[r].trace) = "backproRouter"
      /\ KeyValue(req[r]).value = config.apiKeys[1]
      /\ req[s].path = StatusPath /\ req[s].adminKey = NoHeader
      /\ req[s].pc = "responded" /\ req[s].res.status = 200

\* ------------------------------------------------------------------------
\* routes/fwAnalysis.ts and routes/backpro.ts: the upstream call of a router
\* ------------------------------------------------------------------------

\* how the upstream call ends: a response (its status, and whether its body
\* is JSON), a connection-level error, or a timeout
RouterOutcomes ==
    {[kind |-> "response", status |-> 200, json |-> TRUE],
     [kind |-> "response", status |-> 200, json |-> FALSE],
     [kind |-> "response", status |-> 503, json |-> TRUE],
     [kind |-> "error", status |-> 0, json |-> FALSE],
     [kind |-> "timeout", status |-> 0, json |-> FALSE]}

\* the statuses of the proxy library's own error response, sent as plain text
\* when createProxyMiddleware is given no error handler
DefaultProxyErrorStatuses == {500, 504}

Replied(q, o, status, code, sent) ==
    [q EXCEPT !.pc = "responded", !.reply = o, !.res = Json(status, code),
              !.sent = sent,
              !.trace = Append(@, IF o.kind = "response" THEN "upstreamResponded"
                                  ELSE "upstreamFailed")]

\* the upstream's own response, passed through by the proxy
PassedThrough(q, o) == Replied(q, o, o.status, "", [format |-> "upstream", json |-> <<>>])

\* String(error) of the exception the fetch or response.json() raised
ErrorText(o) ==
    CASE o.kind = "response" -> "SyntaxError: Unexpected token"
      [] o.kind = "timeout"  -> "TypeError: fetch failed (timeout)"
      [] OTHER               -> "TypeError: fetch failed"

\* fwAnalysisRouter: GET /health without a timer and without a look at
\* response.ok; the proxy has no error handler, so the library answers
fwAnalysisRouter(q, o, libraryStatus) ==
    IF q.fwd.route = "health"
    THEN IF o.kind = "response" /\ o.json
         THEN Replied(q, o, 200, "", JsonBody([status |-> "ok", service |-> "fw-analysis",
                                               data |-> "upstream"]))
         ELSE Replied(q, o, 502, "", JsonBody([status |-> "error", service |-> "fw-analysis",
                                               message |-> ErrorText(o)]))
    ELSE IF o.kind = "response"
         THEN PassedThrough(q, o)
         ELSE Replied(q, o, libraryStatus, "", TextBody)

\* the body of backpro's health sub-route when the upstream is not healthy
Unhealthy(code, message) ==
    JsonBody([status |-> "unhealthy", service |-> "backpro", code |-> code,
              message |-> message])

\* backproRouter: GET /health with the 5 s abort timer, and the proxy with its
\* error handler
backproRouter(q, o) ==
    IF q.fwd.route = "health"
    THEN CASE o.kind = "timeout" ->
                Replied(q, o, 503, "TIMEOUT", Unhealthy("TIMEOUT", "Health check timed out"))
           [] o.kind = "error" ->
                Replied(q, o, 503, "CONNECTION_FAILED",
                        Unhealthy("CONNECTION_FAILED", "Unable to connect to upstream service"))
           [] ~ResponseOk(o.status) ->
                Replied(q, o, 503, "UPSTREAM_ERROR",
                        Unhealthy("UPSTREAM_ERROR", "Upstream service returned an error status"))
           [] ~o.json ->
                Replied(q, o, 503, "INVALID_RESPONSE",
                        Unhealthy("INVALID_RESPONSE", "Upstream service returned invalid response"))
           [] OTHER ->
                Replied(q, o, 200, "", JsonBody([status |-> "healthy", service |-> "backpro",
                                                 upstream |-> "upstream"]))
    ELSE IF o.kind = "response"
         THEN PassedThrough(q, o)
         ELSE Replied(q, o, 502, "PROXY_ERROR",
                      JsonBody(ErrorEnvelope("PROXY_ERROR", "Unable to reach upstream service")))

\* the upstream call of a forwarded request ends; a silent upstream never
\* answers, so the call ends by a timeout
UpstreamReply(r) ==
    /\ req[r].pc = "forwarded"
    /\ \E o \in RouterOutcomes, libraryStatus \in DefaultProxyErrorStatuses :
         /\ (o.kind = "timeout") <=> (upstream[req[r].fwd.target] = "silent")
         /\ req' = [req EXCEPT ![r] =
                      IF req[r].fwd.target = "fwAnalysis"
                      THEN fwAnalysisRouter(req[r], o, libraryStatus)
                      ELSE backproRouter(req[r], o)]
    /\ UNCHANGED <<config, now, store, upstream, proc>>

\* ------------------------------------------------------------------------
\* The pipeline of createApp() with the routers' upstream calls
\* ------------------------------------------------------------------------

ProxyPaths == {FwAnalysisPrefix \o <<"jobs">>, BackproPrefix \o <<"jobs">>}
ProtectedPaths ==
    ProxyPaths \cup {FwAnalysisPrefix \o <<"health">>, BackproPrefix \o <<"health">>}

InitPipeline ==
    /\ config = Config(<<<<97>>>>, TickMs, 1, FALSE)
    /\ now = 0
    /\ store = <<>>
    /\ upstream \in {[u \in Upstreams |-> s] : s \in {"responsive", "silent"}}
    /\ req = [r \in 1..PipelineRequests |-> Idle]
    /\ proc = Listening

NextPipeline ==
    \/ \E r \in DOMAIN req :
         ReceiveWith(r, {"GET"}, ProtectedPaths, AppKeys, {NoHeader}, {"none"})
    \/ \E r \in DOMAIN req :
         ReceiveWith(r, {"GET"}, {HealthPath, TestPath}, {NoHeader}, {NoHeader}, {"none"})
    \/ \E r \in DOMAIN req :
         ReceiveWith(r, {"POST"}, ProxyPaths, {Single(<<97>>)}, {NoHeader},
                     {"json", "badjson", "binary"})
    \/ \E r \in DOMAIN req : RateLimiter(r)
    \/ \E r \in DOMAIN req : UpstreamReply(r)

SpecPipeline == InitPipeline /\ [][NextPipeline]_vars

\* the stages of a request, read off its trace
Ran(q, stage) == \E i \in 1..Len(q.trace) : q.trace[i] = stage
Before(q, a, b) ==
    \A i, j \in 1..Len(q.trace) : (q.trace[i] = a /\ q.trace[j] = b) => i < j
RanRouter(q) == Ran(q, "fwAnalysisRouter") \/ Ran(q, "backproRouter")
RanUpstream(q) == Ran(q, "upstreamResponded") \/ Ran(q, "upstreamFailed")
ProtectedRequests == {r \in DOMAIN req : req[r].pc # "idle" /\ Protected(req[r].path)}

\* C11 as the specification words it: a protected request is checked for its
\* key before it is checked against the rate limit, and a request that is not
\* forwarded is answered MISSING_API_KEY, INVALID_API_KEY or RATE_LIMITED.
C11_AuthBeforeRate ==
    \A r \in ProtectedRequests :
      LET q == req[r]
      IN  /\ Ran(q, "rateLimiter") => (Ran(q, "apiKeyGuard") /\ Before(q, "apiKeyGuard", "rateLimiter"))
          /\ (q.pc = "responded" /\ ~RanRouter(q)) =>
               q.res.code \in {"MISSING_API_KEY", "INVALID_API_KEY", "RATE_LIMITED"}

\* C11: a protected request runs through the limiter, then the guard, then the
\* router and its upstream call, in that order; the limiter's rejection (429
\* RATE_LIMITED) and the guard's (401 MISSING_API_KEY or INVALID_API_KEY) end
\* the request without its being forwarded, and so do the two exceptions that
\* errorHandler answers (400 INVALID_JSON, 500 INTERNAL_ERROR).
C11_ProtectedStateMachine ==
    \A r \in ProtectedRequests :
      LET q == req[r]
      IN  /\ Before(q, "rateLimiter", "apiKeyGuard")
          /\ \A n \in Routers : Before(q, "apiKeyGuard", n)
          /\ \A n \in Routers, u \in {"upstreamResponded", "upstreamFailed"} : Before(q, n, u)
          /\ Ran(q, "apiKeyGuard") => Ran(q, "rateLimiter")
          /\ RanRouter(q) =>
               /\ Ran(q, "apiKeyGuard") /\ q.guard = "admitted"
               /\ q.fwd # NoForward
               /\ q.pc \in {"forwarded", "responded"}
               /\ (q.pc = "responded") <=> RanUpstream(q)
               /\ q.pc = "forwarded" => q.res = NoResponse
          /\ ~(Ran(q, "upstreamResponded") /\ Ran(q, "upstreamFailed"))
          /\ (q.pc = "responded" /\ ~RanRouter(q)) =>
               /\ q.fwd = NoForward /\ q.reply = NoReply
               /\ CASE Last(q.trace) = "rateLimiter" ->
                         q.res.status = 429 /\ q.res.code = "RATE_LIMITED"
                    [] Last(q.trace) = "apiKeyGuard" ->
                         q.res.status = 401
                           /\ q.res.code \in {"MISSING_API_KEY", "INVALID_API_KEY"}
                    [] OTHER ->
                         Last(q.trace) = "errorHandler"
                           /\ q.res.code \in {"INVALID_JSON", "INTERNAL_ERROR"}

\* one request went all the way and its upstream call failed; another, without
\* a key, was turned away by the limiter before the guard saw it
C11_Witness ==
    \E r, s \in ProtectedRequests :
      /\ req[r].pc = "responded"
      /\ req[r].trace = <<"securityHeaders", "cors", "rateLimiter", "bodyParser",
                          "httpLogger", "apiKeyGuard", "backproRouter", "upstreamFailed">>
      /\ req[s].adminKey = NoHeader /\ req[s].res.code = "RATE_LIMITED"
      /\ ~Ran(req[s], "apiKeyGuard")

\* the stages in front of the routes, in the order createApp registers them
PipelineOrder == <<"securityHeaders", "cors", "rateLimiter", "bodyParser", "httpLogger">>
RouteStages ==
    {"health", "status", "apiKeyGuard", "fwAnalysisRouter", "backproRouter",
     "upstreamResponded", "upstreamFailed", "notFound", "errorHandler"}

C13_UpstreamFailureMapping ==
    \A r \in DOMAIN req :
      LET q == req[r]
      IN  (q.guard = "admitted" /\ q.pc = "responded" /\ q.reply.kind \in {"error", "timeout"}) =>
            /\ q.res.status \in {502, 503}
            /\ q.sent.format = "json"

\* C14: a request that a proxy router sends upstream does not carry
\* x-fw-admin-key, and its method, its other headers and its body are those of
\* the client's request.
C14_HeaderStripping ==
    \A r \in DOMAIN req :
      LET q == req[r]
      IN  q.fwd.route = "proxy" =>
            /\ "x-fw-admin-key" \notin q.fwd.headers
            /\ q.fwd.method = q.method
            /\ q.fwd.headers = RequestHeaders(q) \ {"x-fw-admin-key"}
            /\ q.fwd.payload = q.payload

\* the part of C14 that holds: the key header never leaves the gateway
C14_KeyNeverForwarded ==
    \A r \in DOMAIN req :
      req[r].fwd # NoForward => "x-fw-admin-key" \notin req[r].fwd.headers

\* a response the gateway wrote itself for an error condition
GatewayError(q) ==
    q.pc = "responded" /\ q.res.status >= 400 /\ q.sent.format # "upstream"

\* C15: every error response of the gateway has a JSON body with status
\* "error", a non-empty code and a message, and no body has a stack or trace
\* field.
C15_ErrorEnvelope ==
    \A r \in DOMAIN req :
      LET q == req[r]
      IN  /\ GatewayError(q) =>
               /\ q.sent.format = "json"
               /\ {"status", "code", "message"} \subseteq DOMAIN q.sent.json
               /\ q.sent.json.status = "error"
               /\ q.sent.json.code # ""
          /\ q.sent.format = "json" => DOMAIN q.sent.json \cap {"stack", "trace"} = {}

\* ------------------------------------------------------------------------
\* errorHandler behind handlers that throw, in and outside production
\* ------------------------------------------------------------------------

ExceptionTexts == {"Something went wrong internally", "connect ECONNREFUSED 10.0.0.5:5432"}

\* what a handler may throw: plain errors, a SyntaxError that does not come
\* from the body parser, an ApiError, and the body parser's SyntaxError
Exceptions ==
    {Error(n, t) : n \in {"Error", "SyntaxError"}, t \in ExceptionTexts}
      \cup {ApiError(422, "VALIDATION_ERROR", t) : t \in ExceptionTexts}
      \cup {[ApiError(409, "CONFLICT", "Already exists") EXCEPT !.body = TRUE]}
      \cup {BodySyntaxError(t) : t \in ExceptionTexts}

\* a route handler throws (or passes an error to next)
Throw(r) ==
    /\ req[r].pc = "handler"
    /\ \E err \in Exceptions : req' = [req EXCEPT ![r] = Thrown(req[r], err)]
    /\ UNCHANGED <<config, now, store, upstream, proc>>

InitErrors ==
    /\ config \in {[Config(<<<<97>>>>, TickMs, 1, TRUE) EXCEPT !.isProduction = p] :
                     p \in BOOLEAN}
    /\ now = 0
    /\ store = <<>>
    /\ upstream = [u \in Upstreams |-> "responsive"]
    /\ req = [r \in 1..2 |-> [Idle EXCEPT !.pc = "handler", !.method = "GET",
                                          !.path = TestPath,
                                          !.trace = PipelineOrder]]
    /\ proc = Listening

NextErrors == \E r \in DOMAIN req : Throw(r)

SpecErrors == InitErrors /\ [][NextErrors]_vars

\* an exception errorHandler does not classify
Unclassified(err) ==
    err.name # "" /\ err.name # "ApiError" /\ ~(err.name = "SyntaxError" /\ err.body)

\* C16: an exception that is neither an ApiError nor the body parser's
\* SyntaxError is answered 500 INTERNAL_ERROR; in production the message is
\* "An internal error occurred" whatever the exception text, so two requests
\* that differ in that text only get the same body; outside production the
\* message is the exception text.
C16_InternalErrorMessage ==
    \A r \in DOMAIN req :
      LET q == req[r]
      IN  (q.pc = "responded" /\ Unclassified(q.thrown)) =>
            /\ q.res = Json(500, "INTERNAL_ERROR")
            /\ q.sent.json.code = "INTERNAL_ERROR"
            /\ q.sent.json.message =
                 IF config.isProduction THEN "An internal error occurred"
                 ELSE q.thrown.message
            /\ \A s \in DOMAIN req :
                 (config.isProduction /\ req[s].pc = "responded" /\ Unclassified(req[s].thrown))
                   => req[s].sent = q.sent

\* in production two handlers threw errors with different texts and the two
\* bodies are the same
C16_Witness ==
    \E r, s \in DOMAIN req :
      /\ config.isProduction
      /\ req[r].pc = "responded" /\ req[s].pc = "responded"
      /\ Unclassified(req[r].thrown) /\ Unclassified(req[s].thrown)
      /\ req[r].thrown.message # req[s].thrown.message
      /\ req[r].sent = req[s].sent
      /\ req[r].sent.json.message = InternalErrorMessage

\* ------------------------------------------------------------------------
\* config.ts: the environment, its schema and loadConfig
\* ------------------------------------------------------------------------

\* an environment variable: unset, or set to a string of code points
Unset == [set |-> FALSE, value |-> <<>>]
Var(v) == [set |-> TRUE, value |-> v]

\* the outcome of one field's schema
Ok(v) == [ok |-> TRUE, value |-> v]
Invalid == [ok |-> FALSE, value |-> <<>>]

\* /^\d+$/
IsDigits(s) == s # <<>> /\ \A i \in DOMAIN s : s[i] \in 48..57

RECURSIVE Number(_)
\* Number(val) of a string of digits
Number(s) ==
    IF s = <<>> THEN 0
    ELSE 10 * Number(SubSeq(s, 1, Len(s) - 1)) + (s[Len(s)] - 48)

StartsWith(s, prefix) ==
    Len(s) >= Len(prefix) /\ SubSeq(s, 1, Len(prefix)) = prefix

\* "http://", "https://", "ftp://"
Http == <<104, 116, 116, 112, 58, 47, 47>>
Https == <<104, 116, 116, 112, 115, 58, 47, 47>>
Ftp == <<102, 116, 112, 58, 47, 47>>
\* "localhost"
Localhost == <<108, 111, 99, 97, 108, 104, 111, 115, 116>>
\* "production", "development", "test"
Production == <<112, 114, 111, 100, 117, 99, 116, 105, 111, 110>>
Development == <<100, 101, 118, 101, 108, 111, 112, 109, 101, 110, 116>>
Test == <<116, 101, 115, 116>>
\* "dev"
DevKey == <<100, 101, 118>>

IsLetter(c) == c \in 97..122 \/ c \in 65..90

\* z.string().url(): new URL(url) does not throw. The string starts with a
\* scheme, and a scheme with an authority (http, https, ftp) has a host.
IsUrl(s) ==
    \E i \in 2..Len(s) :
      /\ s[i] = 58
      /\ \A j \in 1..(i - 1) : IsLetter(s[j])
      /\ \A special \in {Http, Https, Ftp} :
           StartsWith(s, special) => Len(s) > Len(special)

\* .default(value): an unset variable is parsed as the default
WithDefault(v, default) == IF v.set THEN v ELSE Var(default)

\* urlSchema
urlSchema(v) ==
    IF ~v.set \/ ~IsUrl(v.value) THEN Invalid
    ELSE IF StartsWith(v.value, Http) \/ StartsWith(v.value, Https) THEN Ok(v.value)
    ELSE Invalid

RECURSIVE SplitComma(_, _)
\* val.split(","), cur being the piece read so far
SplitComma(s, cur) ==
    IF s = <<>> THEN <<cur>>
    ELSE IF Head(s) = 44 THEN <<cur>> \o SplitComma(Tail(s), <<>>)
    ELSE SplitComma(Tail(s), Append(cur, Head(s)))

\* val.split(",").map(trim).filter(length > 0)
ListOf(s) ==
    SelectSeq([i \in DOMAIN SplitComma(s, <<>>) |->
                 TrimRight(TrimLeft(SplitComma(s, <<>>)[i]))],
              LAMBDA piece : Len(piece) > 0)

\* apiKeysSchema
apiKeysSchema(v, production) ==
    IF ~v.set THEN Invalid
    ELSE LET keys == ListOf(v.value)
         IN  IF Len(keys) = 0 THEN Invalid
             ELSE IF production /\ \E i \in DOMAIN keys : keys[i] = DevKey THEN Invalid
             ELSE Ok(keys)

\* the origins used when CORS_ALLOWED_ORIGINS is unset or empty outside
\* production: localhost ports 3000, 3001 and 5173
LocalOrigins ==
    <<Http \o Localhost \o <<58, 51, 48, 48, 48>>,
      Http \o Localhost \o <<58, 51, 48, 48, 49>>,
      Http \o Localhost \o <<58, 53, 49, 55, 51>>>>

\* corsOriginsSchema
corsOriginsSchema(v, production) ==
    IF ~v.set \/ v.value = <<>>
    THEN Ok(IF production THEN <<>> ELSE LocalOrigins)
    ELSE Ok(ListOf(v.value))

\* z.string().regex(/^\d+$/).transform(Number).pipe(z.number().min(min))
AtLeast(v, min) ==
    IF ~v.set \/ ~IsDigits(v.value) THEN Invalid
    ELSE IF Number(v.value) >= min THEN Ok(Number(v.value))
    ELSE Invalid

\* PORT: digits, between 1 and 65535
portSchema(v) ==
    LET n == AtLeast(v, 1)
    IN  IF n.ok /\ n.value > 65535 THEN Invalid ELSE n

\* NODE_ENV: z.enum
nodeEnvSchema(v) ==
    IF v.set /\ v.value \in {Development, Production, Test} THEN Ok(v.value)
    ELSE Invalid

\* BODY_SIZE_LIMIT: /^\d+(kb|mb|gb)?$/i
bodyLimitSchema(v) ==
    LET s == v.value
        n == Len(s)
        unit == n > 2 /\ s[n] \in {98, 66} /\ s[n - 1] \in {107, 75, 109, 77, 103, 71}
    IN  IF ~v.set THEN Invalid
        ELSE IF IsDigits(IF unit THEN SubSeq(s, 1, n - 2) ELSE s) THEN Ok(s)
        ELSE Invalid

\* the defaults of the schema and of loadConfig's second parse:
\* "http://localhost:5050", "http://localhost:8000"
DefaultFwAnalysisUrl == Http \o Localhost \o <<58, 53, 48, 53, 48>>
DefaultBackproUrl == Http \o Localhost \o <<58, 56, 48, 48, 48>>

\* envSchema.safeParse(env), the schema being built with isProduction
envSchema(env, production) ==
    LET fields ==
          [PORT |-> portSchema(WithDefault(env.PORT, <<56, 55, 56, 55>>)),
           NODE_ENV |-> nodeEnvSchema(WithDefault(env.NODE_ENV, Development)),
           FW_ANALYSIS_SERVICE_URL |->
             urlSchema(IF production THEN env.FW_ANALYSIS_SERVICE_URL
                       ELSE WithDefault(env.FW_ANALYSIS_SERVICE_URL, DefaultFwAnalysisUrl)),
           BACKPRO_SERVICE_URL |->
             urlSchema(IF production THEN env.BACKPRO_SERVICE_URL
                       ELSE WithDefault(env.BACKPRO_SERVICE_URL, DefaultBackproUrl)),
           FW_ADMIN_API_KEYS |->
             apiKeysSchema(IF production THEN env.FW_ADMIN_API_KEYS
                           ELSE WithDefault(env.FW_ADMIN_API_KEYS, DevKey), production),
           CORS_ALLOWED_ORIGINS |-> corsOriginsSchema(env.CORS_ALLOWED_ORIGINS, production),
           RATE_LIMIT_WINDOW_MS |->
             AtLeast(WithDefault(env.RATE_LIMIT_WINDOW_MS, <<54, 48, 48, 48, 48>>), 1000),
           RATE_LIMIT_MAX_REQUESTS |->
             AtLeast(WithDefault(env.RATE_LIMIT_MAX_REQUESTS, <<49, 48, 48>>), 1),
           BODY_SIZE_LIMIT |-> bodyLimitSchema(WithDefault(env.BODY_SIZE_LIMIT, <<49, 109, 98>>)),
           SHUTDOWN_TIMEOUT_MS |->
             AtLeast(WithDefault(env.SHUTDOWN_TIMEOUT_MS, <<49, 48, 48, 48, 48>>), 1000)]
    IN  [success |-> \A f \in DOMAIN fields : fields[f].ok,
         data |-> [f \in DOMAIN fields |-> fields[f].value]]

\* const isProduction = process.env.NODE_ENV === "production"
isProduction(env) == env.NODE_ENV.set /\ env.NODE_ENV.value = Production

\* no configuration object exists
NoConfig == [loaded |-> FALSE]

\* the object loadConfig returns
ConfigOf(data, production) ==
    [loaded |-> TRUE,
     port |-> data.PORT,
     isProduction |-> production,
     services |-> [fwAnalysis |-> data.FW_ANALYSIS_SERVICE_URL,
                   backpro |-> data.BACKPRO_SERVICE_URL],
     apiKeys |-> data.FW_ADMIN_API_KEYS,
     cors |-> [origins |-> data.CORS_ALLOWED_ORIGINS],
     rateLimit |-> [windowMs |-> data.RATE_LIMIT_WINDOW_MS,
                    maxRequests |-> data.RATE_LIMIT_MAX_REQUESTS],
     bodyLimit |-> data.BODY_SIZE_LIMIT,
     shutdownTimeoutMs |-> data.SHUTDOWN_TIMEOUT_MS]

\* how the load of the module ends: a configuration, process.exit(code), or
\* an exception thrown out of the module
Loaded(cfg) == [phase |-> "configured", exitCode |-> 0, config |-> cfg]
Exited(code) == [phase |-> "exited", exitCode |-> code, config |-> NoConfig]
Crashed == [phase |-> "crashed", exitCode |-> 1, config |-> NoConfig]

\* faulty variant: production takes the degrade path too
loadConfig_NoExit(env) ==
    LET production == isProduction(env)
        result == envSchema(env, production)
    IN  Loaded(ConfigOf(result.data, production))

loadConfig(env) ==
    LET production == isProduction(env)
        result == envSchema(env, production)
        retried ==
          envSchema([env EXCEPT
                       !.FW_ANALYSIS_SERVICE_URL = WithDefault(@, DefaultFwAnalysisUrl),
                       !.BACKPRO_SERVICE_URL = WithDefault(@, DefaultBackproUrl),
                       !.FW_ADMIN_API_KEYS = WithDefault(@, DevKey)],
                    production)
    IN  IF ~result.success /\ production THEN Exited(1)
        ELSE IF result.success THEN Loaded(ConfigOf(result.data, production))
        ELSE IF retried.success THEN Loaded(ConfigOf(retried.data, production))
        ELSE Crashed

\* the options createApp gives to cors(): the configured origins, or any
\* origin reflected when the list is empty
corsOptions(cfg) ==
    [anyOrigin |-> ~(Len(cfg.cors.origins) > 0),
     origins |-> cfg.cors.origins,
     credentials |-> TRUE]

\* the module config.ts is evaluated
LoadConfig ==
    /\ proc.phase = "starting"
    /\ LET loaded == loadConfig(proc.env)
       IN  /\ proc' = [proc EXCEPT !.phase = loaded.phase, !.exitCode = loaded.exitCode]
           /\ config' = loaded.config
    /\ UNCHANGED <<now, store, upstream, req>>

\* startServer: app.listen(config.port)
Listen ==
    /\ proc.phase = "configured"
    /\ proc' = [proc EXCEPT !.phase = "listening"]
    /\ UNCHANGED <<config, now, store, upstream, req>>

\* the environments the process is started with
Environments ==
    [NODE_ENV : {Unset, Var(Production), Var(Development), Var(<<115, 116, 97, 103, 105, 110, 103>>)},
     PORT : {Unset, Var(<<56, 48>>), Var(<<48>>), Var(<<54, 53, 53, 51, 54>>), Var(<<56, 97>>)},
     FW_ANALYSIS_SERVICE_URL : {Unset, Var(Http \o <<97>>), Var(Ftp \o <<97>>), Var(<<97>>)},
     BACKPRO_SERVICE_URL : {Unset, Var(Https \o <<98>>), Var(Http)},
     FW_ADMIN_API_KEYS :
       {Unset, Var(<<>>), Var(DevKey), Var(<<107>>), Var(<<107, 44, 32>> \o DevKey),
        Var(<<32, 44, 32>>)},
     CORS_ALLOWED_ORIGINS : {Unset, Var(<<>>), Var(<<44>>), Var(Https \o <<99>>)},
     RATE_LIMIT_WINDOW_MS : {Unset, Var(<<57, 57, 57>>)},
     RATE_LIMIT_MAX_REQUESTS : {Unset, Var(<<48>>)},
     BODY_SIZE_LIMIT : {Unset, Var(<<49, 120>>)},
     SHUTDOWN_TIMEOUT_MS : {Unset}]

InitConfig ==
    /\ proc \in {[phase |-> "starting", env |-> e, exitCode |-> 0] : e \in Environments}
    /\ config = NoConfig
    /\ now = 0
    /\ store = <<>>
    /\ upstream = [u \in Upstreams |-> "responsive"]
    /\ req = <<>>

NextConfig == LoadConfig \/ Listen

SpecConfig == InitConfig /\ [][NextConfig]_vars

Started == proc.phase # "starting"
Valid(env) == envSchema(env, isProduction(env)).success

\* C17: in production, when any rule of the schema fails, the load ends in
\* process.exit with a non-zero code and without a configuration object, and
\* the process never listens.
C17_ProductionFailFast ==
    (isProduction(proc.env) /\ ~Valid(proc.env) /\ Started) =>
      /\ proc.phase = "exited"
      /\ proc.exitCode # 0
      /\ config = NoConfig

\* a production process with an invalid environment has exited
C17_Witness ==
    /\ isProduction(proc.env) /\ ~Valid(proc.env)
    /\ proc.phase = "exited" /\ proc.exitCode = 1

\* C18: outside production a failed validation is degraded: loadConfig returns
\* a fully populated configuration with the safe defaults, and the process
\* neither terminates nor throws.
C18_NonProductionDegrade ==
    (~isProduction(proc.env) /\ ~Valid(proc.env) /\ Started) =>
      /\ proc.phase \in {"configured", "listening"}
      /\ config # NoConfig

\* C19: a production process that listens has keys, none of them 'dev', both
\* upstream URLs and the CORS origins given explicitly, and does not answer
\* any origin.
C19_ProductionConfig ==
    (proc.phase = "listening" /\ isProduction(proc.env)) =>
      /\ Len(config.apiKeys) > 0
      /\ \A i \in DOMAIN config.apiKeys : config.apiKeys[i] # DevKey
      /\ proc.env.FW_ANALYSIS_SERVICE_URL.set /\ proc.env.BACKPRO_SERVICE_URL.set
      /\ proc.env.CORS_ALLOWED_ORIGINS.set
      /\ Len(config.cors.origins) > 0
      /\ ~corsOptions(config).anyOrigin

\* the part of C19 about keys and upstream URLs
C19_KeysAndUrls ==
    (proc.phase = "listening" /\ isProduction(proc.env)) =>
      /\ Len(config.apiKeys) > 0
      /\ \A i \in DOMAIN config.apiKeys : config.apiKeys[i] # DevKey
      /\ proc.env.FW_ANALYSIS_SERVICE_URL.set /\ proc.env.BACKPRO_SERVICE_URL.set
      /\ config.services.fwAnalysis = proc.env.FW_ANALYSIS_SERVICE_URL.value
      /\ config.services.backpro = proc.env.BACKPRO_SERVICE_URL.value

\* C20: every response, whatever its outcome (429, 400 for invalid JSON, 401,
\* 404, the exempt liveness path), carries the combined rate-limit header, the
\* rate-limit policy header and x-request-id.
C20_ResponseHeaders ==
    \A r \in DOMAIN req :
      req[r].pc = "responded" =>
        {"ratelimit", "ratelimit-policy", "x-request-id"} \subseteq req[r].headers

\* ------------------------------------------------------------------------
\* The budget of one client: more requests than the limit in one window
\* ------------------------------------------------------------------------

BudgetRequests == 4

InitBudget ==
    /\ config = Config(<<<<97>>>>, TickMs, BudgetRequests - 1, FALSE)
    /\ now = 0
    /\ store = <<>>
    /\ upstream = [u \in Upstreams |-> "responsive"]
    /\ req = [r \in 1..BudgetRequests |-> Idle]
    /\ proc = Listening

NextBudget ==
    \/ \E r \in DOMAIN req :
         Receive(r, {"GET", "POST"}, {HealthPath, TestPath}, {NoHeader}, {NoHeader})
    \/ \E r \in DOMAIN req : RateLimiter(r)

SpecBudget == InitBudget /\ [][NextBudget]_vars

\* C21: the k-th counted request of a client key in one window carries the
\* combined rate-limit header with limit N and remaining max(0, N - k); the
\* first N are let through and the next is answered 429.
C21_RemainingBudget ==
    \A r \in DOMAIN req :
      Counted(r) =>
        /\ "ratelimit" \in req[r].headers
        /\ RateLimit(req[r]).limit = config.rateLimit.maxRequests
        /\ RateLimit(req[r]).remaining =
             IF config.rateLimit.maxRequests - Rank(r) > 0
             THEN config.rateLimit.maxRequests - Rank(r) ELSE 0
        /\ (req[r].res.status = 429) <=> (Rank(r) > config.rateLimit.maxRequests)

\* with N = 3, four requests of one client: remaining 2, 1, 0 on the three let
\* through, then 429
C21_Witness ==
    /\ config.rateLimit.maxRequests = 3
    /\ \E a, b, c, d \in DOMAIN req :
         /\ \A x \in {a, b, c, d} : Counted(x) /\ SameWindow(a, x)
         /\ Rank(a) = 1 /\ Rank(b) = 2 /\ Rank(c) = 3 /\ Rank(d) = 4
         /\ RateLimit(req[a]).remaining = 2 /\ req[a].res.status # 429
         /\ RateLimit(req[b]).remaining = 1 /\ req[b].res.status # 429
         /\ RateLimit(req[c]).remaining = 0 /\ req[c].res.status # 429
         /\ Rejected429(req[d])

\* ------------------------------------------------------------------------
\* app.ts: logger and httpLogger. The record of a finished request
\* ------------------------------------------------------------------------

\* logger.redact: the paths (the censor is "[REDACTED]")
RedactPaths ==
    {<<"req", "headers", "authorization">>, <<"req", "headers", "x-fw-admin-key">>,
     <<"req", "headers", "cookie">>, <<"res", "headers", "set-cookie">>}

\* httpLogger.customAttributeKeys: the keys the request and the response are
\* logged under
AttributeKeys == [req |-> "request", res |-> "response"]

\* pino's redaction: the value at each path that exists in the record is
\* replaced by the censor, every other value is written as it is
Redacted(record) ==
    [k \in DOMAIN record |->
       [headers |->
          [h \in DOMAIN record[k].headers |->
             IF <<k, "headers", h>> \in RedactPaths THEN "[REDACTED]"
             ELSE record[k].headers[h]]]]

\* the record pino-http writes when a response finishes: the serialized request
\* and response under the attribute keys, after redaction
LogRecord(q) ==
    Redacted([k \in {AttributeKeys.req, AttributeKeys.res} |->
                [headers |-> IF k = AttributeKeys.req THEN q.reqHeaders
                             ELSE q.resHeaders]])

\* the response of a request finishes and httpLogger writes its record
EmitLog(r) ==
    /\ req[r].pc = "finished"
    /\ req' = [req EXCEPT ![r] = [req[r] EXCEPT !.pc = "logged",
                                                 !.record = LogRecord(req[r])]]
    /\ UNCHANGED <<config, now, store, upstream, proc>>

InitLog ==
    /\ config = Config(<<<<97>>>>, TickMs, 1, FALSE)
    /\ now = 0
    /\ store = <<>>
    /\ upstream = [u \in Upstreams |-> "responsive"]
    /\ req \in [{1} ->
                 [pc : {"finished"},
                  reqHeaders :
                    UNION {[present -> {"s3cret", "t0ken"}] :
                             present \in SUBSET {"authorization", "x-fw-admin-key", "cookie"}},
                  resHeaders :
                    UNION {[present -> {"sid=1"}] :
                             present \in SUBSET {"set-cookie", "content-type"}},
                  record : {<<>>}]]
    /\ proc = Listening

NextLog == \E r \in DOMAIN req : EmitLog(r)

SpecLog == InitLog /\ [][NextLog]_vars

\* C22: in every record of the request logger the authorization, x-fw-admin-key
\* and cookie request headers and the set-cookie response header, when present,
\* are listed under their name with the value '[REDACTED]', never in raw form.
C22_LogRedaction ==
    \A r \in DOMAIN req :
      req[r].pc = "logged" =>
        /\ \A h \in DOMAIN req[r].reqHeaders \cap {"authorization", "x-fw-admin-key", "cookie"} :
             \E k \in DOMAIN req[r].record :
               /\ h \in DOMAIN req[r].record[k].headers
               /\ req[r].record[k].headers[h] = "[REDACTED]"
        /\ \A h \in DOMAIN req[r].resHeaders \cap {"set-cookie"} :
             \E k \in DOMAIN req[r].record :
               /\ h \in DOMAIN req[r].record[k].headers
               /\ req[r].record[k].headers[h] = "[REDACTED]"

KeyRequests == 3

InitKeys ==
    /\ config = Config(<<<<97>>>>, TickMs, 1, FALSE)
    /\ now = 0
    /\ store = <<>>
    /\ upstream = [u \in Upstreams |-> "responsive"]
    /\ req = [r \in 1..KeyRequests |-> Idle]
    /\ proc = Listening

NextKeys ==
    \/ \E r \in DOMAIN req :
         Receive(r, {"GET", "POST"}, {TestPath, ProtectedPath}, {NoHeader}, RateXffs)
    \/ \E r \in DOMAIN req : RateLimiter(r)

SpecKeys == InitKeys /\ [][NextKeys]_vars

\* the counted requests of the client of r (the sender of the same
\* x-forwarded-for) up to r, whatever their method and path
OwnHits(r) ==
    Cardinality({s \in DOMAIN req :
                   Counted(s) /\ req[s].xff = req[r].xff /\ req[s].seq <= req[r].seq})

\* C24: the count and the decision for a request depend on the requests of its
\* own client only: its count is the number of that client's requests so far,
\* whatever their method and path, and it is rejected exactly when that number
\* exceeds the limit; the requests of other clients change neither.
C24_BudgetIndependence ==
    \A r \in DOMAIN req :
      Counted(r) =>
        /\ req[r].hits = OwnHits(r)
        /\ (req[r].res.status = 429) <=> (OwnHits(r) > config.rateLimit.maxRequests)
        /\ store[req[r].key].totalHits =
             Cardinality({s \in DOMAIN req : Counted(s) /\ req[s].xff = req[r].xff})

\* one client is let through and then rejected, with another method on another
\* path; the other client's request, counted last, is let through with count 1
C24_Witness ==
    \E a, b, c \in DOMAIN req :
      /\ Counted(a) /\ Counted(b) /\ Counted(c)
      /\ req[a].xff = req[b].xff /\ req[c].xff # req[a].xff
      /\ req[a].seq < req[b].seq /\ req[b].seq < req[c].seq
      /\ req[a].method # req[b].method /\ req[a].path # req[b].path
      /\ req[a].res.status # 429 /\ Rejected429(req[b])
      /\ req[c].hits = 1 /\ req[c].pc = "responded" /\ req[c].res.status # 429

\* a step of the store: the counter of a client whose window is open keeps its
\* window and does not decrease; a counter whose window has elapsed, or a new
\* one, is either left alone or starts a window with the hit as its first
C25_CounterStep ==
    \A k \in DOMAIN store' :
      IF k \in DOMAIN store /\ store[k].resetTime > now
      THEN /\ store'[k].resetTime = store[k].resetTime
           /\ store'[k].totalHits >= store[k].totalHits
      ELSE \/ k \in DOMAIN store /\ store'[k] = store[k]
           \/ /\ store'[k].totalHits = 1
              /\ store'[k].resetTime = now + config.rateLimit.windowMs

\* a rejected request was counted beyond the limit in its own window
C25_RejectedInWindow ==
    \A r \in DOMAIN req :
      req[r].res.status = 429 =>
        /\ req[r].hits > config.rateLimit.maxRequests
        /\ \A s \in DOMAIN req :
             (Counted(s) /\ req[s].key = req[r].key /\ req[s].window # req[r].window)
               => (req[s].res.status = 429 <=> req[s].hits > config.rateLimit.maxRequests)

\* C25: while the window of a client is open its counter never decreases; once
\* the window has elapsed the next hit starts a new window with the counter at
\* one, so that a client rejected in one window is let through again in the
\* next, up to the limit.
C25_WindowLifecycle == [][C25_CounterStep]_vars /\ []C25_RejectedInWindow

\* a client rejected in one window is let through, counted as the first, in a
\* later one
C25_Witness ==
    \E r, s \in DOMAIN req :
      /\ Counted(r) /\ Counted(s) /\ req[r].key = req[s].key
      /\ Rejected429(req[r])
      /\ req[s].window > req[r].window /\ req[s].seq > req[r].seq
      /\ req[s].hits = 1 /\ req[s].pc = "responded" /\ req[s].res.status = 404

\* ------------------------------------------------------------------------
\* The limiter's key for every x-forwarded-for and peer address
\* ------------------------------------------------------------------------

\* x-forwarded-for as sent: absent, or a string of ",", " ", "1" and "2"; the
\* peer address is "9", or undefined for a socket that is gone
InitClientKey ==
    /\ config = Config(<<<<97>>>>, TickMs, 1, FALSE)
    /\ now = 0
    /\ store = <<>>
    /\ upstream = [u \in Upstreams |-> "responsive"]
    /\ req \in {[r \in {1} |-> [Idle EXCEPT !.pc = "rateLimiter", !.method = "GET",
                                            !.path = TestPath, !.xff = x, !.ip = ip,
                                            !.trace = <<"securityHeaders", "cors">>]] :
                  x \in {NoHeader} \cup
                        {Single(v) : v \in Strings({44, 32, 49, 50}, MaxHeaderLen)},
                  ip \in {<<57>>, <<>>}}
    /\ proc = Listening

NextClientKey == \E r \in DOMAIN req : RateLimiter(r)

SpecClientKey == InitClientKey /\ [][NextClientKey]_vars

\* k is s without the whitespace around it
TrimOf(s, k) ==
    \E a \in 1..(Len(s) + 1), b \in 0..Len(s) :
      /\ k = SubSeq(s, a, b)
      /\ \A i \in 1..Len(s) : (i < a \/ i > b) => s[i] \in {32, 9}
      /\ k # <<>> => (k[1] \notin {32, 9} /\ k[Len(k)] \notin {32, 9})

\* e is what precedes the first comma of s (all of s when it has none)
FirstOf(s, e) ==
    \E n \in 0..Len(s) :
      /\ e = SubSeq(s, 1, n)
      /\ \A i \in 1..n : s[i] # 44
      /\ n = Len(s) \/ s[n + 1] = 44

\* C26: the key the limiter counts a request under is the first comma-separated
\* entry of x-forwarded-for without the whitespace around it when the header is
\* there; otherwise the peer address; otherwise "unknown".
C26_ClientKey ==
    \A r \in DOMAIN req :
      LET q == req[r]
          h == IncomingHeader(q.xff)
      IN  Counted(r) =>
            IF h.type = "string"
            THEN \E e \in Strings({44, 32, 49, 50}, Len(h.value)) :
                   FirstOf(h.value, e) /\ TrimOf(e, q.key)
            ELSE IF q.ip # <<>> THEN q.key = q.ip
            ELSE q.key = <<117, 110, 107, 110, 111, 119, 110>>

\* "1 ,2" is counted under "1"
C26_Witness ==
    \E r \in DOMAIN req :
      /\ Counted(r)
      /\ req[r].xff = Single(<<49, 32, 44>>)
      /\ req[r].key = <<49>>

\* the messages the routers have for an upstream failure
GenericMessages ==
    {"Health check timed out", "Unable to connect to upstream service",
     "Upstream service returned an error status",
     "Upstream service returned invalid response", "Unable to reach upstream service"}

\* C27: the message a client gets for an upstream failure, on the health
\* sub-route or through the proxy of either upstream, is one of the routers'
\* generic messages, whatever the exception was.
C27_GenericUpstreamMessage ==
    \A r \in DOMAIN req :
      LET q == req[r]
      IN  (q.pc = "responded" /\ q.fwd.target # "" /\ q.sent.format # "upstream"
             /\ q.res.status >= 500) =>
            /\ q.sent.format = "json"
            /\ "message" \in DOMAIN q.sent.json
            /\ q.sent.json.message \in GenericMessages

\* C28: errorHandler answers an ApiError with its own statusCode, code and
\* message; the body parser's SyntaxError with 400 and {status: 'error', code:
\* 'INVALID_JSON', message: 'Invalid JSON in request body'}, without the
\* parser's text; any other exception with 500 INTERNAL_ERROR. The ApiError
\* case comes first, then the JSON case. One response is sent for an error.
C28_Classification ==
    \A r \in DOMAIN req :
      LET q == req[r]
          e == q.thrown
      IN  (q.pc = "responded" /\ e.name # "") =>
            /\ Cardinality({i \in DOMAIN q.trace : q.trace[i] = "errorHandler"}) = 1
            /\ q.trace[Len(q.trace)] = "errorHandler"
            /\ IF e.name = "ApiError"
               THEN /\ q.res = Json(e.statusCode, e.code)
                    /\ q.sent = [format |-> "json",
                                 json |-> [status |-> "error", code |-> e.code,
                                           message |-> e.message]]
               ELSE IF e.name = "SyntaxError" /\ e.body
               THEN /\ q.res = Json(400, "INVALID_JSON")
                    /\ q.sent = [format |-> "json",
                                 json |-> [status |-> "error", code |-> "INVALID_JSON",
                                           message |-> "Invalid JSON in request body"]]
               ELSE q.res = Json(500, "INTERNAL_ERROR")

\* an ApiError that has a body property, the body parser's SyntaxError and a
\* SyntaxError from elsewhere have each been answered in their own way
C28_Witness ==
    \E r, s \in DOMAIN req :
      /\ req[r].pc = "responded" /\ req[s].pc = "responded"
      /\ req[r].thrown.name = "ApiError" /\ req[r].thrown.body
      /\ req[r].res = Json(409, "CONFLICT")
      /\ req[s].thrown.name = "SyntaxError" /\ req[s].thrown.body
      /\ req[s].res = Json(400, "INVALID_JSON")
      /\ req[s].sent.json.message # req[s].thrown.message

\* C29: for every value of the x-fw-admin-key header and every configured key
\* list the guard either calls next or answers 401 MISSING_API_KEY or 401
\* INVALID_API_KEY; the comparison never throws and no value leads to a 500.
C29_GuardTotal ==
    \A r \in DOMAIN req :
      LET q == req[r]
      IN  q.pc # "apiKeyGuard" =>
            /\ q.err = ""
            /\ q.res.status # 500
            /\ \/ q.guard = "admitted" /\ q.res = NoResponse
               \/ q.res \in {Json(401, "MISSING_API_KEY"), Json(401, "INVALID_API_KEY")}

\* ------------------------------------------------------------------------
\* index.ts: gracefulShutdown and the handlers of the process
\* ------------------------------------------------------------------------

MaxTriggers == 2
MaxConnections == 2

\* a faulty variant: a later trigger replaces the timer of an earlier one
gracefulShutdown_RearmTimer(p, signal, t, timeoutMs) ==
    LET closing == [p EXCEPT !.phase = "closing", !.accepting = FALSE,
                             !.timers = {t + timeoutMs},
                             !.signals = Append(@, signal)]
    IN  IF p.connections = 0
        THEN [closing EXCEPT !.phase = "exited", !.exitCode = 0]
        ELSE closing

\* gracefulShutdown at time t: server.close stops the listening and calls back
\* once no connection is left (at once when there is none), and the callback
\* exits with 0; a timer for the forced exit is set, and none is ever cleared
gracefulShutdown(p, signal, t, timeoutMs) ==
    LET closing == [p EXCEPT !.phase = "closing", !.accepting = FALSE,
                             !.timers = @ \cup {t + timeoutMs},
                             !.signals = Append(@, signal)]
    IN  IF p.connections = 0
        THEN [closing EXCEPT !.phase = "exited", !.exitCode = 0]
        ELSE closing

\* SIGTERM, SIGINT, an uncaught exception or an unhandled rejection
Trigger(signal) ==
    /\ proc.phase \in {"listening", "closing"}
    /\ Len(proc.signals) < MaxTriggers
    /\ proc' = [gracefulShutdown(proc, signal, now, config.shutdownTimeoutMs)
                  EXCEPT !.triggeredAt = IF proc.phase = "listening" THEN now ELSE @]
    /\ UNCHANGED <<config, now, store, upstream, req>>

\* the listening server accepts a connection
Connect ==
    /\ proc.phase # "exited" /\ proc.accepting
    /\ proc.connections < MaxConnections
    /\ proc' = [proc EXCEPT !.connections = @ + 1]
    /\ UNCHANGED <<config, now, store, upstream, req>>

\* a connection ends; the last one of a closing server makes the server emit
\* 'close', and the callback of server.close exits with 0
Disconnect ==
    /\ proc.phase # "exited" /\ proc.connections > 0
    /\ proc' = IF proc.phase = "closing" /\ proc.connections = 1
               THEN [proc EXCEPT !.connections = 0, !.phase = "exited", !.exitCode = 0]
               ELSE [proc EXCEPT !.connections = @ - 1]
    /\ UNCHANGED <<config, now, store, upstream, req>>

\* a timer of gracefulShutdown fires: process.exit(1)
ForceExit ==
    /\ proc.phase = "closing"
    /\ \E d \in proc.timers : d <= now
    /\ proc' = [proc EXCEPT !.phase = "exited", !.exitCode = 1]
    /\ UNCHANGED <<config, now, store, upstream, req>>

\* time passes, up to the next timer
Elapse ==
    /\ proc.phase # "exited"
    /\ proc.phase = "closing" \/ now < MaxTime
    /\ \A d \in proc.timers : now < d
    /\ now' = now + TickMs
    /\ UNCHANGED <<config, store, upstream, req, proc>>

InitShutdown ==
    /\ config = [shutdownTimeoutMs |-> 2 * TickMs, isProduction |-> FALSE]
    /\ now = 0
    /\ store = <<>>
    /\ upstream = [u \in Upstreams |-> "responsive"]
    /\ req = <<>>
    /\ proc = [phase |-> "listening", env |-> NoEnv, exitCode |-> 0, accepting |-> TRUE,
               connections |-> 0, timers |-> {}, signals |-> <<>>, triggeredAt |-> 0]

NextShutdown ==
    \/ \E signal \in {"SIGTERM", "SIGINT", "uncaughtException", "unhandledRejection"} :
         Trigger(signal)
    \/ Connect
    \/ Disconnect
    \/ ForceExit
    \/ Elapse

\* the event loop runs a timer that is due, and time passes
SpecShutdown ==
    InitShutdown /\ [][NextShutdown]_vars /\ WF_vars(ForceExit) /\ WF_vars(Elapse)

\* after a trigger the server accepts nothing; the process is still there only
\* up to the deadline of the first trigger, and its exit status is 0 when the
\* last connection ended by then, 1 when the deadline came first
C30_Shutdown ==
    /\ proc.phase \in {"listening", "closing", "exited"}
    /\ proc.phase # "listening" =>
         /\ ~proc.accepting
         /\ now <= proc.triggeredAt + config.shutdownTimeoutMs
    /\ proc.phase = "exited" =>
         \/ proc.exitCode = 0 /\ proc.connections = 0
         \/ /\ proc.exitCode = 1 /\ proc.connections > 0
            /\ now = proc.triggeredAt + config.shutdownTimeoutMs

C30_NoNewConnection ==
    proc.phase # "listening" => proc'.connections <= proc.connections

\* C30: after any trigger, in any order and any number of times, the server
\* stops accepting connections and the process eventually exits: with 0 when
\* all connections end before the deadline, otherwise with 1 at the deadline
\* of the first trigger; the handler never fails.
C30_ShutdownTerminates ==
    /\ []C30_Shutdown
    /\ [][C30_NoNewConnection]_vars
    /\ (proc.phase = "closing") ~> (proc.phase = "exited")

\* two triggers at different times with a connection that stays: the process
\* exits with 1 at the deadline of the first
C30_Witness ==
    /\ proc.phase = "exited" /\ proc.exitCode = 1
    /\ Len(proc.signals) = 2 /\ proc.signals[1] # proc.signals[2]
    /\ Cardinality(proc.timers) = 2
    /\ now = proc.triggeredAt + config.shutdownTimeoutMs

====
